---------------------------- MODULE Spec2Model ----------------------------
(***************************************************************************)
(* ETFTrueHoldings: the localStorage-backed profile cache (getCache,        *)
(* setCache), the profile fetcher (fetchEtfProfile) and the portfolio       *)
(* handlers of App (handleAddEtf, removeEtf), as a state machine.           *)
(*                                                                         *)
(* JavaScript runs the handlers on one thread; a fetch suspends only at    *)
(* its awaits (the profile query, the fixed delay, the symbol search), so  *)
(* each action below is the code between two suspension points.            *)
(***************************************************************************)
EXTENDS Integers, Sequences, FiniteSets, TLC

VARIABLES
    now,           \* Date.now(), in milliseconds
    ticks,         \* how often the clock has advanced (bounds the model)
    localStorage,  \* cache key -> stored JSON text, or NoItem
    portfolio,     \* App's portfolio state: a sequence of PortfolioItem
    task           \* the fetchEtfProfile calls: slot -> call record

vars == <<now, ticks, localStorage, portfolio, task>>

-----------------------------------------------------------------------------
(* Bounds of the model *)

MaxFetches == 3   \* fetchEtfProfile calls in one behaviour
MaxQueries == 2   \* of them, calls that miss the cache and query the provider
MaxTicks == 2     \* clock advances in one behaviour
MaxMatches == 2   \* length of a bestMatches list in a search reply
MaxLiveFetches == 2   \* calls in a behaviour of the fair specification
MaxCapFetches == 2    \* calls in a behaviour that starts below the cap
MaxCapRemovals == 2   \* positions at the end of the list that can be removed there
MaxPositions == 2     \* positions of a portfolio given to the aggregation
MaxRecords == 2       \* holdings, and sectors, in one profile
MaxFailFetches == 2   \* calls in a behaviour with every kind of failure

-----------------------------------------------------------------------------
(* Program constants *)

CACHE_DURATION == 24 * 60 * 60 * 1000
MAX_ETFS == 50

-----------------------------------------------------------------------------
(* JavaScript values *)

Undefined == "<undefined>"          \* a missing property, read
NullError == "<null>"               \* PortfolioItem.error = null
Null == [null |-> TRUE]             \* PortfolioItem.data = null, getCache's null
NoItem == [item |-> FALSE]          \* localStorage.getItem(key) = null

\* obj[f] in JavaScript: undefined when the object has no such property
Prop(obj, f) == IF f \in DOMAIN obj THEN obj[f] ELSE Undefined

\* String.prototype.toUpperCase on the tickers of the model
toUpperCase(s) ==
    CASE s = "spy" -> "SPY"
      [] s = "Spy" -> "SPY"
      [] s = "qqq" -> "QQQ"
      [] OTHER -> s

\* JavaScript numbers: a finite number is the exact fraction n/d in lowest
\* terms (d > 0); NaN and the infinities are values of their own
NaN == [nan |-> TRUE]
Infinity == [inf |-> 1]
NegInfinity == [inf |-> -1]

RECURSIVE GCD(_, _)
GCD(a, b) == IF b = 0 THEN a ELSE GCD(b, a % b)

Abs(n) == IF n < 0 THEN -n ELSE n

Frac(n, d) ==
    LET g == GCD(Abs(n), Abs(d))
        sgn == IF d < 0 THEN -1 ELSE 1
    IN [n |-> sgn * (n \div g), d |-> sgn * (d \div g)]

Num(n) == [n |-> n, d |-> 1]

IsFinite(x) == DOMAIN x = {"n", "d"}

\* x + y
plus(x, y) ==
    IF IsFinite(x) /\ IsFinite(y) THEN Frac(x.n * y.d + y.n * x.d, x.d * y.d)
    ELSE IF x = NaN \/ y = NaN THEN NaN
    ELSE IF IsFinite(x) THEN y
    ELSE IF IsFinite(y) \/ x = y THEN x
    ELSE NaN

\* x * y
times(x, y) ==
    IF IsFinite(x) /\ IsFinite(y) THEN Frac(x.n * y.n, x.d * y.d)
    ELSE IF x = NaN \/ y = NaN THEN NaN
    ELSE LET sx == IF IsFinite(x) THEN x.n ELSE x.inf
             sy == IF IsFinite(y) THEN y.n ELSE y.inf
         IN IF sx = 0 \/ sy = 0 THEN NaN
            ELSE IF (sx > 0) = (sy > 0) THEN Infinity ELSE NegInfinity

\* x / y
divide(x, y) ==
    IF IsFinite(x) /\ IsFinite(y)
    THEN IF y.n # 0 THEN Frac(x.n * y.d, x.d * y.n)
         ELSE IF x.n = 0 THEN NaN
         ELSE IF x.n > 0 THEN Infinity ELSE NegInfinity
    ELSE IF x = NaN \/ y = NaN THEN NaN
    ELSE IF ~IsFinite(x) /\ ~IsFinite(y) THEN NaN
    ELSE IF IsFinite(x) THEN Num(0)
    ELSE IF (x.inf > 0) = (y.n >= 0) THEN Infinity ELSE NegInfinity

\* x - y
minus(x, y) == plus(x, times(Num(-1), y))

\* x > y; every comparison with NaN is false
greater(x, y) ==
    IF x = NaN \/ y = NaN THEN FALSE
    ELSE IF IsFinite(x) /\ IsFinite(y) THEN x.n * y.d > y.n * x.d
    ELSE IF IsFinite(x) THEN y.inf < 0
    ELSE IF IsFinite(y) THEN x.inf > 0
    ELSE x.inf > y.inf

\* x || 0 on a number: 0 and NaN are falsy
orZero(x) == IF x = NaN THEN Num(0) ELSE x

\* parseFloat(s) of the strings of the model; a string with no leading number,
\* and undefined, give NaN
parseFloat(s) ==
    CASE s = "10000" -> Num(10000)
      [] s = "5000" -> Num(5000)
      [] s = "-5000" -> Num(-5000)
      [] s = "0" -> Num(0)
      [] s = "0.07" -> Frac(7, 100)
      [] s = "0.10" -> Frac(1, 10)
      [] s = "0.5" -> Frac(1, 2)
      [] s = "0.002" -> Frac(2, 1000)
      [] OTHER -> NaN

-----------------------------------------------------------------------------
(* Inputs *)

\* the ticker field of the form, and the ticker argument of fetchEtfProfile
TickerInputs == {"", "SPY", "spy", "QQQ"}
EquityInputs == {"", "10000"}

\* what the provider can send as an ETF_PROFILE payload (holdings, sectors,
\* ratios): two payloads that differ
Bodies == {"payloadA", "payloadB"}

\* a signal field of the profile reply: missing, present but falsy (""),
\* or a message
FieldValues == {"absent", "empty", "text"}

\* the holdings property: missing, present but not an array, an array
HoldingsValues == {"absent", "notArray", "array"}

\* a reply to the ETF_PROFILE query
\*   net: fetch() rejects (network failure) or resolves
\*   ok: response.ok
\*   json: response.json() rejects, or yields null, or yields an object
ProfileReplies ==
    {[net |-> "reject", ok |-> FALSE, json |-> "invalid", errorMessage |-> "absent",
      note |-> "absent", information |-> "absent", holdings |-> "absent",
      body |-> "payloadA"]}
    \cup
    {[net |-> "resolve", ok |-> FALSE, json |-> j, errorMessage |-> "absent",
      note |-> "absent", information |-> "absent", holdings |-> h,
      body |-> "payloadA"] : j \in {"invalid", "object"}, h \in {"absent", "array"}}
    \cup
    {[net |-> "resolve", ok |-> TRUE, json |-> j, errorMessage |-> "absent",
      note |-> "absent", information |-> "absent", holdings |-> "absent",
      body |-> "payloadA"] : j \in {"invalid", "null"}}
    \cup
    [net : {"resolve"}, ok : {TRUE}, json : {"object"}, errorMessage : FieldValues,
     note : FieldValues, information : FieldValues, holdings : HoldingsValues,
     body : Bodies]

\* the provider's names and symbols in a SYMBOL_SEARCH reply
ProviderNames == {"SPDR S&P 500 ETF Trust", Undefined}
ProviderSymbols == {"SPY", "QQQ", "SPYG"}

\* one element of bestMatches: null, or a record with '1. symbol' and
\* (possibly missing) '2. name'
MatchRecords ==
    {Null} \cup
    {[symbol |-> s, name |-> n] : s \in ProviderSymbols, n \in ProviderNames \ {Undefined}} \cup
    {[symbol |-> s] : s \in ProviderSymbols}

MatchLists == UNION {[1..n -> MatchRecords] : n \in 0..MaxMatches}

\* a reply to the SYMBOL_SEARCH query
\*   net: fetch() rejects or resolves (response.ok is not looked at)
\*   json: searchRes.json() rejects, or yields null, or yields an object
\*   isArray: bestMatches is present and an array, whose elements are matches
SearchReplies ==
    {[net |-> "reject", json |-> "invalid", isArray |-> FALSE, matches |-> <<>>]}
    \cup
    {[net |-> "resolve", json |-> j, isArray |-> FALSE, matches |-> <<>>] :
        j \in {"invalid", "null", "object"}}
    \cup
    {[net |-> "resolve", json |-> "object", isArray |-> TRUE, matches |-> l] :
        l \in MatchLists}

-----------------------------------------------------------------------------
(* The cache: getCache and setCache over localStorage *)

\* the key without toUpperCase
cacheKeyRaw(ticker) == <<"av_etf_v4_", ticker>>

\* `av_etf_v4_${ticker.toUpperCase()}`
cacheKey(ticker) == <<"av_etf_v4_", toUpperCase(ticker)>>

\* the strings localStorage is keyed with
CacheKeys == {<<"av_etf_v4_", t>> : t \in TickerInputs \ {""}}

\* JSON.stringify of a CacheEntry: the text holds the properties whose value
\* is not undefined (JSON.stringify leaves those out)
JSON_stringify(entry) ==
    [item |-> TRUE,
     data |-> {<<f, entry.data[f]>> : f \in {g \in DOMAIN entry.data : entry.data[g] # Undefined}},
     timestamp |-> entry.timestamp]

\* JSON.parse of a stored text: an object with the properties of the text
JSON_parse(text) ==
    [data |-> [f \in {p[1] : p \in text.data} |-> (CHOOSE p \in text.data : p[1] = f)[2]],
     timestamp |-> text.timestamp]

\* getCache with <= in place of <
getCacheResultInclusive(store, ticker, t) ==
    LET stored == store[cacheKey(ticker)] IN
    IF stored = NoItem THEN Null
    ELSE LET entry == JSON_parse(stored) IN
         IF t - entry.timestamp <= CACHE_DURATION THEN entry.data ELSE Null

\* getCache's return value. Every stored text was written by setCache, so
\* JSON.parse does not throw.
getCacheResult(store, ticker, t) ==
    LET stored == store[cacheKey(ticker)] IN
    IF stored = NoItem THEN Null
    ELSE LET entry == JSON_parse(stored) IN
         IF t - entry.timestamp < CACHE_DURATION THEN entry.data ELSE Null

\* getCache that removes the entry it reads
getCacheStoreEvicting(store, ticker, t) ==
    [store EXCEPT ![cacheKey(ticker)] = NoItem]

\* localStorage after getCache: an expired entry is removed
getCacheStore(store, ticker, t) ==
    LET stored == store[cacheKey(ticker)] IN
    IF stored = NoItem THEN store
    ELSE LET entry == JSON_parse(stored) IN
         IF t - entry.timestamp < CACHE_DURATION THEN store
         ELSE [store EXCEPT ![cacheKey(ticker)] = NoItem]

\* setCache that half-writes on a quota error: the old item is lost
setCacheLosing(store, ticker, data, t, quotaOk) ==
    LET entry == [data |-> data, timestamp |-> t] IN
    IF quotaOk THEN [store EXCEPT ![cacheKey(ticker)] = JSON_stringify(entry)]
    ELSE [store EXCEPT ![cacheKey(ticker)] = NoItem]

\* setCache that keeps an entry that is already there
setCacheIfAbsent(store, ticker, data, t, quotaOk) ==
    LET entry == [data |-> data, timestamp |-> t] IN
    IF quotaOk /\ store[cacheKey(ticker)] = NoItem
    THEN [store EXCEPT ![cacheKey(ticker)] = JSON_stringify(entry)]
    ELSE store

\* localStorage after setCache; setItem throws when the quota is exceeded,
\* and setCache ignores that
setCache(store, ticker, data, t, quotaOk) ==
    LET entry == [data |-> data, timestamp |-> t] IN
    IF quotaOk THEN [store EXCEPT ![cacheKey(ticker)] = JSON_stringify(entry)]
    ELSE store

-----------------------------------------------------------------------------
(* fetchEtfProfile *)

OK == "<ok>"
HttpError == "HTTP error! status"
NotFoundMsg == "Ticker not found or invalid"
NoteMsg == "API Limit Reached (25/day)"
InformationMsg == "Daily Limit Exceeded"
NoHoldingsMsg == "No holding data available"
FetchTypeError == "TypeError: Failed to fetch"
JsonSyntaxError == "SyntaxError: Unexpected token"
NullTypeError == "TypeError: Cannot read properties of null"

\* a property value is truthy
Truthy(v) == v = "text"

\* steps 2 and 3 with the Note check ahead of the Error Message check
profileOutcomeNoteFirst(reply) ==
    IF reply.net = "reject" THEN FetchTypeError
    ELSE IF ~reply.ok THEN HttpError
    ELSE IF reply.json = "invalid" THEN JsonSyntaxError
    ELSE IF reply.json = "null" THEN NullTypeError
    ELSE IF Truthy(reply.note) THEN NoteMsg
    ELSE IF Truthy(reply.errorMessage) THEN NotFoundMsg
    ELSE IF Truthy(reply.information) THEN InformationMsg
    ELSE IF reply.holdings # "array" THEN NoHoldingsMsg
    ELSE OK

\* steps 2 and 3 of fetchEtfProfile: the error thrown for a profile reply,
\* or OK
profileOutcome(reply) ==
    IF reply.net = "reject" THEN FetchTypeError
    ELSE IF ~reply.ok THEN HttpError
    ELSE IF reply.json = "invalid" THEN JsonSyntaxError
    ELSE IF reply.json = "null" THEN NullTypeError
    ELSE IF Truthy(reply.errorMessage) THEN NotFoundMsg
    ELSE IF Truthy(reply.note) THEN NoteMsg
    ELSE IF Truthy(reply.information) THEN InformationMsg
    ELSE IF reply.holdings # "array" THEN NoHoldingsMsg
    ELSE OK

\* bestMatches.find(m => m['1. symbol'] === ticker): the first match, or
\* "none"; reading a property of a null element throws
RECURSIVE find(_, _)
find(matches, ticker) ==
    IF matches = <<>> THEN [found |-> "none"]
    ELSE IF Head(matches) = Null THEN [found |-> "throws"]
    ELSE IF Head(matches).symbol = ticker THEN [found |-> "match", match |-> Head(matches)]
    ELSE find(Tail(matches), ticker)

\* step 4 of fetchEtfProfile: etfName after the try block
etfName(reply, ticker) ==
    IF reply.net = "reject" \/ reply.json # "object" THEN ticker
    ELSE IF ~reply.isArray THEN ticker
    ELSE LET r == find(reply.matches, ticker) IN
         IF r.found = "match" THEN Prop(r.match, "name") ELSE ticker

\* finalData = {...data, name: etfName}
finalData(body, name) == [body |-> body, name |-> name]

-----------------------------------------------------------------------------
(* App state *)

NoOwner == -1
NoReply == [net |-> "none"]

\* one fetchEtfProfile call
\*   pc: "idle", then "profile" (awaiting the ETF_PROFILE reply), "delay",
\*       "search" (awaiting the SYMBOL_SEARCH reply), "done"
\*   reply: the reply the call last resumed with (response and data, then
\*       searchRes and searchData)
\*   owner: the id of the position handleAddEtf made for it
\*   savedAt: Date.now() of a setCache that stored the result
IdleTask ==
    [pc |-> "idle", ticker |-> "", owner |-> NoOwner, reply |-> NoReply, body |-> "",
     result |-> Null, error |-> NullError, profileCalls |-> 0, searchCalls |-> 0,
     saved |-> FALSE, savedAt |-> 0]

Slots == 1..MaxFetches

\* the slot of the next fetchEtfProfile call
FreeSlot(i) == /\ task[i].pc = "idle"
               /\ \A j \in Slots : j < i => task[j].pc # "idle"

\* the data update that leaves the loading flag set
applyDataStillLoading(pf, id, data) ==
    [k \in DOMAIN pf |->
        IF pf[k].id = id THEN [pf[k] EXCEPT !.data = data] ELSE pf[k]]

\* setPortfolio(prev => prev.map(item => item.id === id ?
\*   {...item, data, isLoading: false} : item))
applyData(pf, id, data) ==
    [k \in DOMAIN pf |->
        IF pf[k].id = id THEN [pf[k] EXCEPT !.data = data, !.isLoading = FALSE]
        ELSE pf[k]]

\* the error update without the id test
applyErrorToAll(pf, id, message) ==
    [k \in DOMAIN pf |-> [pf[k] EXCEPT !.error = message, !.isLoading = FALSE]]

\* setPortfolio(prev => prev.map(item => item.id === id ?
\*   {...item, error: err.message || "Failed to fetch", isLoading: false} : item))
applyError(pf, id, message) ==
    [k \in DOMAIN pf |->
        IF pf[k].id = id THEN [pf[k] EXCEPT !.error = message, !.isLoading = FALSE]
        ELSE pf[k]]

\* prev.filter(item => item.id !== id)
RECURSIVE filterOut(_, _)
filterOut(pf, id) ==
    IF pf = <<>> THEN <<>>
    ELSE IF Head(pf).id = id THEN filterOut(Tail(pf), id)
    ELSE <<Head(pf)>> \o filterOut(Tail(pf), id)

Init ==
    /\ now = 0
    /\ ticks = 0
    /\ localStorage = [k \in CacheKeys |-> NoItem]
    /\ portfolio = <<>>
    /\ task = [i \in Slots |-> IdleTask]

\* the calls that have queried the provider
Queried == {j \in Slots : task[j].profileCalls > 0}

\* the synchronous start of fetchEtfProfile(ticker, apiKey) in slot i: step 1,
\* and on a miss the ETF_PROFILE query is sent
fetchStart(i, ticker, owner) ==
    LET cachedData == getCacheResult(localStorage, ticker, now) IN
    /\ cachedData = Null => Cardinality(Queried) < MaxQueries
    /\ localStorage' = getCacheStore(localStorage, ticker, now)
    /\ task' = [task EXCEPT ![i] =
          IF cachedData # Null
          THEN [IdleTask EXCEPT !.pc = "done", !.ticker = ticker, !.owner = owner,
                                !.result = cachedData]
          ELSE [IdleTask EXCEPT !.pc = "profile", !.ticker = ticker, !.owner = owner,
                                !.profileCalls = 1]]

\* the limit test admitting one position more
atCapacityOffByOne(pf) == Len(pf) > MAX_ETFS

\* portfolio.length >= 50
atCapacity(pf) == Len(pf) >= MAX_ETFS

\* handleAddEtf: the form's submit handler. On a cache hit the awaited
\* promise is already resolved and the position is filled in before any
\* other handler runs.
handleAddEtf(i, newTicker, newEquity) ==
    /\ FreeSlot(i)
    /\ newTicker # "" /\ newEquity # ""
    /\ ~atCapacity(portfolio)
    /\ LET id == now
           newItem == [id |-> id, ticker |-> toUpperCase(newTicker),
                       equity |-> parseFloat(newEquity), data |-> Null,
                       isLoading |-> TRUE, error |-> NullError]
           cachedData == getCacheResult(localStorage, newItem.ticker, now)
       IN /\ fetchStart(i, newItem.ticker, id)
          /\ portfolio' = IF cachedData # Null
                          THEN applyData(Append(portfolio, newItem), id, cachedData)
                          ELSE Append(portfolio, newItem)
    /\ UNCHANGED <<now, ticks>>

\* fetchEtfProfile called on its own, with the ticker as given
fetchEtfProfile(i, ticker) ==
    /\ FreeSlot(i)
    /\ ticker # ""
    /\ fetchStart(i, ticker, NoOwner)
    /\ UNCHANGED <<now, ticks, portfolio>>

\* the continuation that sends the ETF_PROFILE query once more before it
\* gives up
ProfileResponseRetrying(i, reply) ==
    /\ task[i].pc = "profile"
    /\ LET outcome == profileOutcome(reply) IN
       IF outcome = OK
       THEN /\ task' = [task EXCEPT ![i].pc = "delay", ![i].body = reply.body,
                                    ![i].reply = reply]
            /\ UNCHANGED portfolio
       ELSE IF task[i].profileCalls < 2
       THEN /\ task' = [task EXCEPT ![i].profileCalls = 2]
            /\ UNCHANGED portfolio
       ELSE /\ task' = [task EXCEPT ![i].pc = "done", ![i].error = outcome,
                                    ![i].reply = reply]
            /\ portfolio' = applyError(portfolio, task[i].owner, outcome)
    /\ UNCHANGED <<now, ticks, localStorage>>

\* the continuation that stores what it has under the key before it throws
ProfileResponseCachingFailure(i, reply) ==
    /\ task[i].pc = "profile"
    /\ LET outcome == profileOutcome(reply) IN
       IF outcome = OK
       THEN /\ task' = [task EXCEPT ![i].pc = "delay", ![i].body = reply.body,
                                    ![i].reply = reply]
            /\ UNCHANGED <<portfolio, localStorage>>
       ELSE /\ task' = [task EXCEPT ![i].pc = "done", ![i].error = outcome,
                                    ![i].reply = reply]
            /\ portfolio' = applyError(portfolio, task[i].owner, outcome)
            /\ localStorage' = setCache(localStorage, task[i].ticker,
                                        finalData("payloadA", task[i].ticker), now, TRUE)
    /\ UNCHANGED <<now, ticks>>

\* the call resumes with the reply to the ETF_PROFILE query: steps 2 and 3,
\* then either the throw that handleAddEtf catches, or the fixed delay begins
ProfileResponse(i, reply) ==
    /\ task[i].pc = "profile"
    /\ LET outcome == profileOutcome(reply) IN
       IF outcome = OK
       THEN /\ task' = [task EXCEPT ![i].pc = "delay", ![i].body = reply.body,
                                    ![i].reply = reply]
            /\ UNCHANGED portfolio
       ELSE /\ task' = [task EXCEPT ![i].pc = "done", ![i].error = outcome,
                                    ![i].reply = reply]
            /\ portfolio' = applyError(portfolio, task[i].owner, outcome)
    /\ UNCHANGED <<now, ticks, localStorage>>

\* delay(250) elapses: the SYMBOL_SEARCH query is sent
DelayElapsed(i) ==
    /\ task[i].pc = "delay"
    /\ task' = [task EXCEPT ![i].pc = "search", ![i].searchCalls = 1,
                            ![i].reply = NoReply]
    /\ UNCHANGED <<now, ticks, localStorage, portfolio>>

\* the call resumes with the reply to the SYMBOL_SEARCH query: step 4, step 5
\* (setCache), the return, and handleAddEtf's update of the position
SearchResponse(i, reply, quotaOk) ==
    /\ task[i].pc = "search"
    /\ LET data == finalData(task[i].body, etfName(reply, task[i].ticker)) IN
       /\ localStorage' = setCache(localStorage, task[i].ticker, data, now, quotaOk)
       /\ task' = [task EXCEPT ![i].pc = "done", ![i].result = data,
                               ![i].reply = reply, ![i].saved = quotaOk,
                               ![i].savedAt = IF quotaOk THEN now ELSE 0]
       /\ portfolio' = applyData(portfolio, task[i].owner, data)
    /\ UNCHANGED <<now, ticks>>

\* removeEtf(id): the trash button of a position
removeEtf(id) ==
    /\ \E k \in DOMAIN portfolio : portfolio[k].id = id
    /\ portfolio' = filterOut(portfolio, id)
    /\ UNCHANGED <<now, ticks, localStorage, task>>

\* the clock advances
ClockSteps == {1, CACHE_DURATION - 1}

Tick(d) ==
    /\ ticks < MaxTicks
    /\ now' = now + d
    /\ ticks' = ticks + 1
    /\ UNCHANGED <<localStorage, portfolio, task>>

\* the replies of the specification of concurrent calls: one failure and one
\* payload; a search that fails, one that names the fund, one whose match
\* has no name
CoreProfileReplies ==
    {r \in ProfileReplies :
        /\ r.net = "resolve" /\ r.ok /\ r.json = "object"
        /\ r.errorMessage = "absent" /\ r.information = "absent"
        /\ r.holdings = "array" /\ r.body = "payloadA"
        /\ r.note \in {"absent", "text"}}

CoreSearchReplies ==
    {r \in SearchReplies :
        \/ r.net = "reject"
        \/ r.isArray /\ Len(r.matches) = 1 /\ r.matches[1] # Null
                     /\ r.matches[1].symbol = "SPY"}

Step(slots, profileReplies, searchReplies, clockSteps) ==
    \/ \E i \in slots, t \in TickerInputs, e \in EquityInputs : handleAddEtf(i, t, e)
    \/ \E i \in slots, t \in TickerInputs : fetchEtfProfile(i, t)
    \/ \E i \in slots, r \in profileReplies : ProfileResponse(i, r)
    \/ \E i \in slots : DelayElapsed(i)
    \/ \E i \in slots, r \in searchReplies, q \in BOOLEAN : SearchResponse(i, r, q)
    \/ \E k \in DOMAIN portfolio : removeEtf(portfolio[k].id)
    \/ \E d \in clockSteps : Tick(d)

\* concurrent calls
Next == Step(Slots, CoreProfileReplies, CoreSearchReplies, ClockSteps)

Spec == Init /\ [][Next]_vars

\* one call, every reply
NextOne == Step({1}, ProfileReplies, SearchReplies, ClockSteps)

SpecOne == Init /\ [][NextOne]_vars

-----------------------------------------------------------------------------
(* Derived state: stats and aggregatedData (useMemo over portfolio).
   finalData keeps the provider's object under body, so item.data.holdings
   of the code is item.data.body.holdings here. *)

\* null as the value of a string property
NullString == "<null>"

\* a string, null or undefined used as a condition
isTruthy(v) == v \notin {"", NullString, Undefined}

\* the test of stats that also lets a position with an error through
hasProfileIgnoringError(item) == item.data # Null

\* item.data && !item.error
hasProfile(item) == item.data # Null /\ ~isTruthy(item.error)

\* the forEach of stats, from position k on, with the accumulators in acc
RECURSIVE statsLoop(_, _, _)
statsLoop(pf, k, acc) ==
    IF k > Len(pf) THEN acc
    ELSE LET item == pf[k] IN
         IF hasProfile(item)
         THEN LET expenseRatio == orZero(parseFloat(Prop(item.data.body, "net_expense_ratio")))
                  divYield == orZero(parseFloat(Prop(item.data.body, "dividend_yield")))
              IN statsLoop(pf, k + 1,
                    [totalEquity |-> plus(acc.totalEquity, item.equity),
                     weightedExpense |-> plus(acc.weightedExpense, times(expenseRatio, item.equity)),
                     weightedYield |-> plus(acc.weightedYield, times(divYield, item.equity)),
                     validItemsCount |-> acc.validItemsCount + 1])
         ELSE statsLoop(pf, k + 1, acc)

\* the averages divide whatever totalEquity is
averageUnguarded(weighted, totalEquity) == divide(weighted, totalEquity)

\* totalEquity > 0 ? (weighted / totalEquity) : 0
average(weighted, totalEquity) ==
    IF greater(totalEquity, Num(0)) THEN divide(weighted, totalEquity) ELSE Num(0)

stats(pf) ==
    LET acc == statsLoop(pf, 1, [totalEquity |-> Num(0), weightedExpense |-> Num(0),
                                 weightedYield |-> Num(0), validItemsCount |-> 0])
    IN [totalEquity |-> acc.totalEquity,
        avgExpenseRatio |-> average(acc.weightedExpense, acc.totalEquity),
        avgDividendYield |-> average(acc.weightedYield, acc.totalEquity),
        totalAnnualExpense |-> acc.weightedExpense,
        totalAnnualDividend |-> acc.weightedYield,
        hasData |-> acc.validItemsCount > 0]

\* A Map: its entries [key, val] in insertion order
mapIndex(m, key) ==
    IF \E k \in DOMAIN m : m[k].key = key
    THEN CHOOSE k \in DOMAIN m : m[k].key = key
    ELSE 0

mapSet(m, key, val) ==
    IF mapIndex(m, key) = 0 THEN Append(m, [key |-> key, val |-> val])
    ELSE [m EXCEPT ![mapIndex(m, key)].val = val]

\* the test of aggregatedData that also lets a position with an error through
aggregatesIgnoringError(item) ==
    item.data # Null /\ "holdings" \in DOMAIN item.data.body

\* item.data && item.data.holdings && !item.error
aggregates(item) ==
    /\ item.data # Null
    /\ "holdings" \in DOMAIN item.data.body
    /\ ~isTruthy(item.error)

\* the holdings the two nested forEach visit, in order, each with the equity
\* of its position
RECURSIVE holdingVisits(_, _)
holdingVisits(pf, k) ==
    IF k > Len(pf) THEN <<>>
    ELSE IF aggregates(pf[k])
    THEN [h \in DOMAIN pf[k].data.body.holdings |->
             [equity |-> pf[k].equity, holding |-> pf[k].data.body.holdings[h]]]
         \o holdingVisits(pf, k + 1)
    ELSE holdingVisits(pf, k + 1)

\* the same for the sectors (if (item.data.sectors))
RECURSIVE sectorVisits(_, _)
sectorVisits(pf, k) ==
    IF k > Len(pf) THEN <<>>
    ELSE IF aggregates(pf[k]) /\ "sectors" \in DOMAIN pf[k].data.body
    THEN [h \in DOMAIN pf[k].data.body.sectors |->
             [equity |-> pf[k].equity, sector |-> pf[k].data.body.sectors[h]]]
         \o sectorVisits(pf, k + 1)
    ELSE sectorVisits(pf, k + 1)

\* if (!symbol || symbol === 'N/A' || symbol === '-')
isCash(symbol) == ~isTruthy(symbol) \/ symbol = "N/A" \/ symbol = "-"

\* the body of the holdings forEach, applied to the visits from v on
RECURSIVE holdingLoop(_, _, _)
holdingLoop(visits, v, holdingMap) ==
    IF v > Len(visits) THEN holdingMap
    ELSE LET holding == visits[v].holding
             raw == Prop(holding, "symbol")
             symbol == IF isCash(raw) THEN "CASH" ELSE raw
             description == IF isCash(raw) THEN "Cash / Other Assets"
                            ELSE Prop(holding, "description")
             weight == parseFloat(Prop(holding, "weight"))
             holdingValue == times(visits[v].equity, weight)
             at == mapIndex(holdingMap, symbol)
             current == IF at # 0 THEN holdingMap[at].val
                        ELSE [value |-> Num(0), name |-> description,
                              assetClass |-> Prop(holding, "assets")]
         IN holdingLoop(visits, v + 1,
               mapSet(holdingMap, symbol,
                  [value |-> plus(current.value, holdingValue),
                   name |-> IF isTruthy(description) THEN description ELSE current.name,
                   assetClass |-> IF isTruthy(Prop(holding, "assets"))
                                  THEN Prop(holding, "assets") ELSE current.assetClass]))

\* the body of the sectors forEach; sectorMap.get(...) || 0 reads a stored 0
\* or NaN as 0
RECURSIVE sectorLoop(_, _, _)
sectorLoop(visits, v, sectorMap) ==
    IF v > Len(visits) THEN sectorMap
    ELSE LET sector == visits[v].sector
             weight == parseFloat(Prop(sector, "weight"))
             sectorValue == times(visits[v].equity, weight)
             at == mapIndex(sectorMap, Prop(sector, "sector"))
             currentVal == IF at # 0 THEN orZero(sectorMap[at].val) ELSE Num(0)
         IN sectorLoop(visits, v + 1,
               mapSet(sectorMap, Prop(sector, "sector"), plus(currentVal, sectorValue)))

\* stats.totalEquity > 0 ? (value / stats.totalEquity) * 100 : 0
percentage(value, totalEquity) ==
    IF greater(totalEquity, Num(0))
    THEN times(divide(value, totalEquity), Num(100))
    ELSE Num(0)

\* Array.prototype.sort with (a, b) => b.sortKey - a.sortKey. The sort is
\* stable; the comparator is consistent unless a key is NaN, and with an
\* inconsistent comparator the order is implementation-defined: every
\* permutation is a possible result.
Perms(n) == {p \in [1..n -> 1..n] : \A i, j \in 1..n : p[i] = p[j] => i = j}

rank(entries, i) ==
    1 + Cardinality({j \in DOMAIN entries : greater(entries[j].sortKey, entries[i].sortKey)})
      + Cardinality({j \in DOMAIN entries :
                        j < i /\ ~greater(entries[i].sortKey, entries[j].sortKey)
                              /\ ~greater(entries[j].sortKey, entries[i].sortKey)})

\* a sort that leaves the entries in insertion order
sortOutcomesUnsorted(entries) == {entries}

sortOutcomes(entries) ==
    LET n == Len(entries) IN
    IF n >= 2 /\ \E i \in 1..n : entries[i].sortKey = NaN
    THEN {[k \in 1..n |-> entries[p[k]]] : p \in Perms(n)}
    ELSE {[k \in 1..n |-> entries[CHOOSE i \in 1..n : rank(entries, i) = k]]}

\* Array.from(holdingMap.entries()).map(...), before the sort
holdingEntries(pf) ==
    LET holdingMap == holdingLoop(holdingVisits(pf, 1), 1, <<>>)
        totalEquity == stats(pf).totalEquity
    IN [k \in DOMAIN holdingMap |->
           [ticker |-> holdingMap[k].key,
            name |-> holdingMap[k].val.name,
            assetClass |-> holdingMap[k].val.assetClass,
            totalValue |-> holdingMap[k].val.value,
            percentageOfPortfolio |-> percentage(holdingMap[k].val.value, totalEquity)]]

\* Array.from(sectorMap.entries()).map(...), before the sort
sectorEntries(pf) ==
    LET sectorMap == sectorLoop(sectorVisits(pf, 1), 1, <<>>)
        totalEquity == stats(pf).totalEquity
    IN [k \in DOMAIN sectorMap |->
           [name |-> sectorMap[k].key,
            value |-> sectorMap[k].val,
            percentage |-> percentage(sectorMap[k].val, totalEquity)]]

\* the entries of a sequence without the sort key
unkeyed(keyed, entries) == [k \in DOMAIN keyed |-> entries[keyed[k].at]]

\* aggregatedData: the arrays that the two sorts can return
aggregatedData(pf) ==
    LET h == holdingEntries(pf)
        c == sectorEntries(pf)
    IN [holdings |-> {unkeyed(o, h) : o \in sortOutcomes(
                         [k \in DOMAIN h |-> [sortKey |-> h[k].totalValue, at |-> k]])},
        sectors |-> {unkeyed(o, c) : o \in sortOutcomes(
                         [k \in DOMAIN c |-> [sortKey |-> c[k].value, at |-> k]])}]

\* two calls, whose awaited replies and timer do arrive; the clock advances
\* by one millisecond at a time
LiveSlots == 1..MaxLiveFetches

NextLive == Step(LiveSlots, CoreProfileReplies, CoreSearchReplies, {1})

\* await fetch(...) resolves or rejects, and setTimeout fires
Fairness ==
    \A i \in LiveSlots :
        /\ WF_vars(\E r \in CoreProfileReplies : ProfileResponse(i, r))
        /\ WF_vars(DelayElapsed(i))
        /\ WF_vars(\E r \in CoreSearchReplies, q \in BOOLEAN : SearchResponse(i, r, q))

SpecLive == Init /\ [][NextLive]_vars /\ Fairness

\* two calls, and a reply for every way in which the ETF_PROFILE query fails
FailSlots == 1..MaxFailFetches

FailureProfileReplies ==
    {r \in ProfileReplies :
        /\ r.body = "payloadA"
        /\ \/ r.net = "reject"
           \/ r.net = "resolve" /\ ~r.ok /\ r.json = "object" /\ r.holdings = "array"
           \/ r.net = "resolve" /\ r.ok /\ r.json \in {"invalid", "null"}
           \/ /\ r.net = "resolve" /\ r.ok /\ r.json = "object"
              /\ {r.errorMessage, r.note, r.information} \subseteq {"absent", "text"}
              /\ Cardinality({f \in {"errorMessage", "note", "information"} :
                                 r[f] = "text"}) <= 1
              /\ r.holdings = "array" \/ {r.errorMessage, r.note, r.information} = {"absent"}}

NextFail == Step(FailSlots, FailureProfileReplies, CoreSearchReplies, ClockSteps)

SpecFail == Init /\ [][NextFail]_vars

\* The form at the limit of 50: the portfolio already has 49 positions, added
\* at earlier milliseconds, whose fetches failed with "Ticker not found or
\* invalid"; the equity field takes any number the input lets through.
CapSlots == 1..MaxCapFetches

CapEquityInputs == {"", "10000", "-5000", "0"}

InitCap ==
    /\ now = 0
    /\ ticks = 0
    /\ localStorage = [k \in CacheKeys |-> NoItem]
    /\ portfolio = [k \in 1..(MAX_ETFS - 1) |->
                       [id |-> k - MAX_ETFS, ticker |-> "QQQ",
                        equity |-> parseFloat("10000"), data |-> Null,
                        isLoading |-> FALSE, error |-> NotFoundMsg]]
    /\ task = [i \in Slots |-> IdleTask]

NextCap ==
    \/ \E i \in CapSlots, t \in TickerInputs, e \in CapEquityInputs : handleAddEtf(i, t, e)
    \/ \E i \in CapSlots, t \in TickerInputs : fetchEtfProfile(i, t)
    \/ \E i \in CapSlots, r \in CoreProfileReplies : ProfileResponse(i, r)
    \/ \E i \in CapSlots : DelayElapsed(i)
    \/ \E i \in CapSlots, r \in CoreSearchReplies, q \in BOOLEAN : SearchResponse(i, r, q)
    \/ \E k \in DOMAIN portfolio :
          k > MAX_ETFS - MaxCapRemovals /\ removeEtf(portfolio[k].id)
    \/ Tick(1)

SpecCap == InitCap /\ [][NextCap]_vars

-----------------------------------------------------------------------------
(* Vocabulary of the properties *)

\* call i starts in this step
Started(i) == task[i].pc = "idle" /\ task'[i].pc # "idle"

\* the profiles p and q read the same: every property has the same value
SameProfile(p, q) == \A f \in {"body", "name"} : Prop(p, f) = Prop(q, f)

\* call m has stored its result under the key of ticker t
Wrote(m, t) == task[m].saved /\ cacheKey(task[m].ticker) = cacheKey(t)

\* the stored text under the key of ticker t is there and unexpired
Unexpired(t) ==
    /\ localStorage[cacheKey(t)] # NoItem
    /\ now - localStorage[cacheKey(t)].timestamp < CACHE_DURATION

-----------------------------------------------------------------------------
(* C1: a fetch of a ticker whose cache entry is unexpired returns the cached
   profile, queries the provider neither for the profile nor for the name
   (then or later), and leaves the cache as it was. *)
C1_HitReturnsCachedNoCallNoMutation ==
    [][\A i \in Slots :
          /\ (Started(i) /\ Unexpired(task'[i].ticker)) =>
                /\ task'[i].pc = "done"
                /\ task'[i].error = NullError
                /\ {<<f, task'[i].result[f]>> : f \in DOMAIN task'[i].result}
                      = localStorage[cacheKey(task'[i].ticker)].data
                /\ task'[i].profileCalls = 0 /\ task'[i].searchCalls = 0
                /\ localStorage' = localStorage
          /\ task[i].pc = "done" => task'[i] = task[i]]_vars

\* a call that was served from the cache: it is done with a profile, never
\* queried the provider, and another call had stored that profile
C1_Witness ==
    \E i, m \in Slots :
        /\ i # m
        /\ task[i].pc = "done" /\ task[i].profileCalls = 0 /\ task[i].result # Null
        /\ Wrote(m, task[i].ticker)
        /\ Unexpired(task[i].ticker)

(* C2: getCache returns the stored profile exactly when now - timestamp <
   CACHE_DURATION: within the TTL it returns what setCache was given,
   unchanged; at or after the TTL it returns null and the entry is gone from
   the store after that read. *)
C2_GetWithinTtlElseEvict ==
    [][\A i \in Slots :
          Started(i) =>
             LET t == task'[i].ticker
                 stored == localStorage[cacheKey(t)]
             IN IF stored # NoItem /\ now - stored.timestamp < 86400000
                THEN /\ task'[i].pc = "done"
                     /\ \E m \in Slots :
                           /\ Wrote(m, t)
                           /\ task[m].savedAt = stored.timestamp
                           /\ SameProfile(task'[i].result, task[m].result)
                ELSE /\ task'[i].result = Null
                     /\ task'[i].pc = "profile"
                     /\ localStorage'[cacheKey(t)] = NoItem]_vars

\* one call stored a profile, a second was served it, and a third, started
\* exactly CACHE_DURATION after the write, missed and found the entry removed
C2_Witness ==
    \E m, h, i \in Slots :
        /\ Wrote(m, task[i].ticker) /\ Wrote(m, task[h].ticker)
        /\ task[h].pc = "done" /\ task[h].profileCalls = 0
        /\ SameProfile(task[h].result, task[m].result)
        /\ now - task[m].savedAt = CACHE_DURATION
        /\ task[i].pc = "profile"
        /\ localStorage[cacheKey(task[i].ticker)] = NoItem

(* Vocabulary of the properties about the cache and concurrent calls *)

\* the cache key of ticker t: the version tag and the uppercase ticker
UpperKey(t) == <<"av_etf_v4_", toUpperCase(t)>>

\* property f of the object a stored text encodes
TextProp(text, f) ==
    IF \E q \in text.data : q[1] = f
    THEN (CHOOSE q \in text.data : q[1] = f)[2]
    ELSE Undefined

\* the stored text encodes a profile that reads as p
TextHolds(text, p) == \A f \in {"body", "name"} : TextProp(text, f) = Prop(p, f)

\* call i went to the provider, succeeded, and stored its result
Stored(i) == task[i].pc = "done" /\ task[i].searchCalls = 1 /\ task[i].saved

\* call i went to the provider and succeeded, and its setCache failed
FailedPut(i) == task[i].pc = "done" /\ task[i].searchCalls = 1 /\ ~task[i].saved

\* calls i and j are for the same canonical ticker
SameTicker(ti, tj) == toUpperCase(ti) = toUpperCase(tj)

\* call i returns from the provider in this step, its setCache succeeding
ReturnsStored(i) == task[i].pc = "search" /\ task'[i].pc = "done" /\ task'[i].saved

\* the same, its setCache failing
ReturnsUnstored(i) == task[i].pc = "search" /\ task'[i].pc = "done" /\ ~task'[i].saved

\* after a successful return of call i the cache holds, under the uppercase
\* key, the returned profile stamped with the time of the write
WriteLands(i) ==
    ReturnsStored(i) =>
        LET text == localStorage'[UpperKey(task[i].ticker)] IN
        /\ text # NoItem
        /\ text.timestamp = now
        /\ TextHolds(text, task'[i].result)
        /\ task'[i].error = NullError

(* C5, as claimed: after a fetch of t succeeds through the provider and its
   write succeeds, the cache holds under the uppercase key the profile it
   returned, stamped with the time of the write, and a later fetch within 24h
   of t or of a case-variant of t is a hit that returns that same profile. *)
C5_Original_LaterFetchReturnsSameProfile ==
    [][\A i \in Slots :
          /\ WriteLands(i)
          /\ \A j \in Slots :
                (/\ Started(j) /\ Stored(i)
                 /\ SameTicker(task[i].ticker, task'[j].ticker)
                 /\ now - task[i].savedAt < CACHE_DURATION) =>
                    /\ task'[j].pc = "done" /\ task'[j].profileCalls = 0
                    /\ SameProfile(task'[j].result, task[i].result)]_vars

(* C5, amended: ... and a later fetch within 24h of t or of a case-variant of
   t is a hit; it returns that same profile unless another fetch of the same
   ticker wrote the entry at or after that write, and then it returns the
   profile of such a later writer. *)
C5_WriteLandsAndLaterFetchHits ==
    [][\A i \in Slots :
          /\ WriteLands(i)
          /\ \A j \in Slots :
                (/\ Started(j) /\ Stored(i)
                 /\ SameTicker(task[i].ticker, task'[j].ticker)
                 /\ now - task[i].savedAt < CACHE_DURATION) =>
                    /\ task'[j].pc = "done" /\ task'[j].profileCalls = 0
                    /\ \E m \in Slots :
                          /\ Stored(m) /\ SameTicker(task[m].ticker, task[i].ticker)
                          /\ task[m].savedAt >= task[i].savedAt
                          /\ SameProfile(task'[j].result, task[m].result)]_vars

\* a call for "spy" stored its profile and a later call for "SPY" was served
\* that profile from the cache
C5_Witness ==
    \E i, j \in Slots :
        /\ Stored(i) /\ task[i].ticker = "spy"
        /\ task[j].pc = "done" /\ task[j].profileCalls = 0 /\ task[j].ticker = "SPY"
        /\ SameProfile(task[j].result, task[i].result)
        /\ \A m \in Slots : Stored(m) => m = i

\* the next call started after call i's return, for the same ticker: no call
\* for that ticker has a slot between them
NextFetchAfter(i, j) ==
    /\ i < j
    /\ Started(j)
    /\ SameTicker(task[i].ticker, task'[j].ticker)
    /\ \A m \in Slots : (i < m /\ m < j) => ~SameTicker(task[m].ticker, task[i].ticker)

\* a failed setCache raises nothing: the call returns the fresh profile, the
\* position receives it, and localStorage is as before
FailedPutIsSilent(i) ==
    ReturnsUnstored(i) =>
        /\ task'[i].error = NullError
        /\ task'[i].result # Null
        /\ Prop(task'[i].result, "body") = task[i].body
        /\ localStorage' = localStorage
        /\ \A k \in DOMAIN portfolio :
              portfolio[k].id = task[i].owner =>
                 portfolio'[k].data = task'[i].result /\ portfolio'[k].error = portfolio[k].error

(* C6, as claimed: a failed put is never raised, the fetch returns the fresh
   profile, the store is unchanged, and the next fetch of that ticker is a
   cache miss. *)
C6_Original_NextFetchMisses ==
    [][\A i \in Slots :
          /\ FailedPutIsSilent(i)
          /\ \A j \in Slots :
                (FailedPut(i) /\ NextFetchAfter(i, j)) => task'[j].pc = "profile"]_vars

(* C6, amended: ... and the next fetch of that ticker is a cache miss unless
   another fetch of the same ticker stored its profile within the last 24h;
   then it is a hit on a profile that such a fetch stored. *)
C6_FailedPutSilentNextFetchMissesOrHitsStored ==
    [][\A i \in Slots :
          /\ FailedPutIsSilent(i)
          /\ \A j \in Slots :
                (FailedPut(i) /\ NextFetchAfter(i, j)) =>
                    LET writers == {m \in Slots :
                                      /\ Stored(m)
                                      /\ SameTicker(task[m].ticker, task[i].ticker)
                                      /\ now - task[m].savedAt < CACHE_DURATION}
                    IN IF writers = {}
                       THEN task'[j].pc = "profile" /\ task'[j].result = Null
                       ELSE /\ task'[j].pc = "done"
                            /\ \E m \in writers :
                                  SameProfile(task'[j].result, task[m].result)]_vars

\* a call returned a profile that was not stored, and the next call for the
\* ticker missed the cache
C6_Witness ==
    \E i, j \in Slots :
        /\ i < j
        /\ FailedPut(i)
        /\ SameTicker(task[i].ticker, task[j].ticker)
        /\ task[j].pc = "profile"
        /\ \A m \in Slots : ~Stored(m)

(* C7: every position has profile and error both absent while pending, and
   exactly one of them set once its fetch has completed. *)
C7_PendingNoneCompletedExactlyOne ==
    \A k \in DOMAIN portfolio :
        LET p == portfolio[k] IN
        /\ p.isLoading => (p.data = Null /\ p.error = NullError)
        /\ ~p.isLoading => ((p.data # Null) # (p.error # NullError))

\* call i completes in this step, with a profile or an error
Completes(i) == task[i].pc \in {"profile", "search"} /\ task'[i].pc = "done"

\* no position has the identifier of call i's position
Orphan(i) ==
    /\ task[i].owner # NoOwner
    /\ \A k \in DOMAIN portfolio : portfolio[k].id # task[i].owner

(* C8: removing a position does not cancel its fetch (the call is left as it
   is), and when the call completes and no position has its identifier the
   portfolio stays exactly as it was. *)
C8_RemovedPositionResultDropped ==
    [][/\ Len(portfolio') < Len(portfolio) => task' = task
       /\ \A i \in Slots : (Completes(i) /\ Orphan(i)) => portfolio' = portfolio]_vars

\* a call is in flight whose position has been removed, while another
\* position remains
C8_Witness ==
    \E i \in Slots :
        /\ task[i].pc \in {"profile", "delay", "search"}
        /\ Orphan(i)
        /\ portfolio # <<>>

(* C9, as claimed: when two overlapping fetches of one ticker both succeed,
   their cache writes carry equivalent profiles. *)
C9_Original_OverlappingWritesEquivalent ==
    \A i, j \in Slots :
        (/\ Stored(i) /\ Stored(j)
         /\ SameTicker(task[i].ticker, task[j].ticker)
         /\ task[j].savedAt - task[i].savedAt < CACHE_DURATION
         /\ task[i].savedAt - task[j].savedAt < CACHE_DURATION) =>
            SameProfile(task[i].result, task[j].result)

(* C9, amended: two overlapping fetches of one ticker can both miss and both
   query the provider; each write carries the profile its own fetch returned
   (the two need not be equivalent), and the entry in the cache is the one
   written last. *)
C9_LastWriterWins ==
    \A t \in TickerInputs \ {""} :
        LET text == localStorage[UpperKey(t)] IN
        text # NoItem =>
            /\ \E m \in Slots :
                  /\ Stored(m) /\ SameTicker(task[m].ticker, t)
                  /\ task[m].savedAt = text.timestamp
                  /\ TextHolds(text, task[m].result)
            /\ \A m \in Slots :
                  (Stored(m) /\ SameTicker(task[m].ticker, t)) =>
                     task[m].savedAt <= text.timestamp

\* two calls for one ticker both queried the provider and stored different
\* profiles, the first at an earlier time; the cache holds the later one
C9_Witness ==
    \E i, j \in Slots :
        /\ i # j /\ Stored(i) /\ Stored(j)
        /\ SameTicker(task[i].ticker, task[j].ticker)
        /\ task[i].profileCalls = 1 /\ task[j].profileCalls = 1
        /\ ~SameProfile(task[i].result, task[j].result)
        /\ task[i].savedAt < task[j].savedAt
        /\ task[j].savedAt - task[i].savedAt < CACHE_DURATION
        /\ TextHolds(localStorage[UpperKey(task[j].ticker)], task[j].result)

-----------------------------------------------------------------------------
(* Vocabulary of the properties about one call's replies *)

\* the error kinds, by the message thrown
ErrorKind(message) ==
    CASE message = OK -> "Success"
      [] message = HttpError -> "Transport"
      [] message = NotFoundMsg -> "NotFound"
      [] message = NoteMsg -> "RateLimited"
      [] message = InformationMsg -> "DailyLimitExceeded"
      [] message = NoHoldingsMsg -> "NoHoldingData"
      [] OTHER -> "RuntimeError"

\* the outcome of the first rule, in order, whose condition holds
FirstMatching(rules) ==
    rules[CHOOSE k \in DOMAIN rules :
             rules[k][1] /\ \A j \in DOMAIN rules : j < k => ~rules[j][1]][2]

\* call i has resumed with its ETF_PROFILE reply, and not yet gone further
HandledProfile(i) == task[i].reply # NoReply /\ task[i].searchCalls = 0

\* what became of call i at the profile reply: an error kind, or "Success"
\* when it went on to the name lookup
ProfileKind(i) == IF task[i].pc = "done" THEN ErrorKind(task[i].error) ELSE "Success"

\* call i has resumed with its SYMBOL_SEARCH reply
HandledSearch(i) == task[i].pc = "done" /\ task[i].searchCalls = 1

(* C3, as claimed: on a miss, with a response whose status is non-success or
   whose body decodes to an object, the first rule decides: non-success ->
   Transport; has an error field -> NotFound; has a note field -> RateLimited;
   has an information field -> DailyLimitExceeded; holdings missing or not a
   sequence -> NoHoldingData; otherwise success. *)
C3_Original_FieldPresenceDecides ==
    \A i \in Slots :
        LET r == task[i].reply IN
        (HandledProfile(i) /\ r.net = "resolve" /\ (~r.ok \/ r.json = "object")) =>
            ProfileKind(i) = FirstMatching(<<
                <<~r.ok, "Transport">>,
                <<r.errorMessage # "absent", "NotFound">>,
                <<r.note # "absent", "RateLimited">>,
                <<r.information # "absent", "DailyLimitExceeded">>,
                <<r.holdings # "array", "NoHoldingData">>,
                <<TRUE, "Success">> >>)

(* C3, amended: the same order decides, where a signal field counts only when
   its value is truthy (a field that is present but empty is ignored); a
   request that fails outright, and a success response whose body is not
   JSON or is JSON null, fail the call with the runtime's own error. A call
   that passes these rules succeeds. *)
C3_FirstMatchingRuleOnTruthyFields ==
    \A i \in Slots :
        LET r == task[i].reply IN
        /\ HandledProfile(i) =>
              ProfileKind(i) = FirstMatching(<<
                  <<r.net = "reject", "RuntimeError">>,
                  <<~r.ok, "Transport">>,
                  <<r.json \in {"invalid", "null"}, "RuntimeError">>,
                  <<r.errorMessage = "text", "NotFound">>,
                  <<r.note = "text", "RateLimited">>,
                  <<r.information = "text", "DailyLimitExceeded">>,
                  <<r.holdings \in {"absent", "notArray"}, "NoHoldingData">>,
                  <<TRUE, "Success">> >>)
        /\ HandledSearch(i) => task[i].error = NullError /\ task[i].result # Null
        /\ (task[i].pc = "done" /\ task[i].error # NullError) => task[i].result = Null

\* a reply with all three signal fields and a holdings list has failed the
\* call with NotFound
C3_Witness ==
    \E i \in Slots :
        /\ HandledProfile(i)
        /\ task[i].reply.errorMessage = "text" /\ task[i].reply.note = "text"
        /\ task[i].reply.information = "text" /\ task[i].reply.holdings = "array"
        /\ task[i].pc = "done" /\ task[i].error = NotFoundMsg

\* the name lookup of reply r for ticker t fails: the request fails, the
\* body does not decode to an object with a bestMatches array, or the scan
\* for the exactly-matching symbol ends on a null record, on no record, or
\* on a record without a name
SearchFails(r, t) ==
    \/ r.net = "reject"
    \/ r.json # "object"
    \/ ~r.isArray
    \/ LET stops == {k \in DOMAIN r.matches :
                        r.matches[k] = Null \/ r.matches[k].symbol = t}
       IN \/ stops = {}
          \/ LET first == CHOOSE k \in stops : \A j \in stops : k <= j
             IN r.matches[first] = Null \/ "name" \notin DOMAIN r.matches[first]

(* C4: the name lookup never changes the outcome: a call that passed the
   profile checks succeeds whatever the search reply is, and whenever the
   lookup fails the returned and the cached profile carry the requested
   ticker as their name. *)
C4_LookupFailureKeepsTickerAsName ==
    \A i \in Slots :
        HandledSearch(i) =>
            /\ task[i].error = NullError
            /\ task[i].result # Null
            /\ SearchFails(task[i].reply, task[i].ticker) =>
                  /\ Prop(task[i].result, "name") = task[i].ticker
                  /\ task[i].saved =>
                        <<"name", task[i].ticker>>
                            \in localStorage[cacheKey(task[i].ticker)].data

-----------------------------------------------------------------------------
(* Termination of the loading state *)

\* the values Date.now() takes when the clock advances in steps of 1
ClockValues == 0..MaxTicks

\* some position with identifier id is pending
PendingAt(id) ==
    \E k \in DOMAIN portfolio : portfolio[k].id = id /\ portfolio[k].isLoading

\* every position with identifier id that is in the portfolio has completed
SettledAt(id) ==
    \A k \in DOMAIN portfolio :
        portfolio[k].id = id =>
            /\ ~portfolio[k].isLoading
            /\ (portfolio[k].data # Null \/ portfolio[k].error # NullError)

(* C10: when the provider's replies eventually arrive, every pending position
   is eventually either removed or no longer pending, holding a profile or an
   error. *)
C10_PendingPositionEventuallyCompletes ==
    \A id \in ClockValues : PendingAt(id) ~> SettledAt(id)

\* a position whose fetch went to the provider has left the pending state
C10_Witness ==
    \E k \in DOMAIN portfolio, i \in LiveSlots :
        /\ task[i].owner = portfolio[k].id
        /\ task[i].pc = "done" /\ task[i].profileCalls = 1
        /\ ~portfolio[k].isLoading
        /\ (portfolio[k].data # Null \/ portfolio[k].error # NullError)

-----------------------------------------------------------------------------
(* The aggregation over every small portfolio *)

\* holdings of a provider reply: symbol (null in some), description, weight
\* (not a number in some), asset class
HoldingRecords(symbols, weights) ==
    [symbol : symbols, description : {"desc"}, weight : weights, assets : {"Equity"}]

ListsOf(records) == UNION {[1..n -> records] : n \in 0..MaxRecords}

HoldingLists ==
    ListsOf(HoldingRecords({"AAPL", "MSFT", "N/A"}, {"0.07", "abc"}))
        \cup {<<h>> : h \in HoldingRecords({"AAPL", "MSFT", "N/A", NullString, "", "-"},
                                           {"0.07", "0.10", "abc"})}

\* sectors of a provider reply; a record can lack its name
SectorRecords == [sector : {"TECH", ""}, weight : {"0.5", "abc"}]

SectorLists ==
    ListsOf(SectorRecords) \cup {<<c>> : c \in [weight : {"0.5", "abc"}]}

OneHolding == <<[symbol |-> "AAPL", description |-> "desc", weight |-> "0.07",
                 assets |-> "Equity"]>>

\* ETF_PROFILE objects: every holdings list with one sectors list, every
\* sectors list with one holdings list, and one without sectors
AggBodies ==
    {[net_expense_ratio |-> "0.002", dividend_yield |-> "0.07", holdings |-> h,
      sectors |-> <<[sector |-> "TECH", weight |-> "0.5"]>>] : h \in HoldingLists}
    \cup {[net_expense_ratio |-> "0.002", dividend_yield |-> "abc",
           holdings |-> OneHolding, sectors |-> c] : c \in SectorLists}
    \cup {[net_expense_ratio |-> "0.002", dividend_yield |-> "0.07",
           holdings |-> OneHolding]}

AggEquities == {parseFloat(e) : e \in {"10000", "5000", "0"}}

\* positions without their id: pending, failed (RateLimited), completed, and
\* completed with an error as well, as an add with a reused id leaves one
AggItems ==
    [ticker : {"SPY"}, equity : AggEquities, data : {Null},
     isLoading : {TRUE}, error : {NullError}]
    \cup [ticker : {"SPY"}, equity : AggEquities, data : {Null},
          isLoading : {FALSE}, error : {NoteMsg}]
    \cup [ticker : {"SPY"}, equity : AggEquities,
          data : {finalData(b, "SPY") : b \in AggBodies},
          isLoading : {FALSE}, error : {NullError}]
    \cup [ticker : {"SPY"}, equity : AggEquities,
          data : {finalData([net_expense_ratio |-> "0.002", dividend_yield |-> "0.07",
                             holdings |-> OneHolding], "SPY")},
          isLoading : {FALSE}, error : {NoteMsg}]

withId(item, id) ==
    [id |-> id, ticker |-> item.ticker, equity |-> item.equity, data |-> item.data,
     isLoading |-> item.isLoading, error |-> item.error]

\* a portfolio of up to MaxPositions positions, added at earlier milliseconds
InitAgg ==
    /\ now = 0
    /\ ticks = 0
    /\ localStorage = [k \in CacheKeys |-> NoItem]
    /\ \E n \in 0..MaxPositions : \E items \in [1..n -> AggItems] :
          portfolio = [k \in 1..n |-> withId(items[k], k - 1 - MaxPositions)]
    /\ task = [i \in Slots |-> IdleTask]

NextAgg == \E k \in DOMAIN portfolio : removeEtf(portfolio[k].id)

SpecAgg == InitAgg /\ [][NextAgg]_vars

-----------------------------------------------------------------------------
(* Vocabulary of the properties about the aggregation *)

\* the sum of a sequence of numbers
RECURSIVE SumSeq(_)
SumSeq(xs) == IF xs = <<>> THEN Num(0) ELSE plus(Head(xs), SumSeq(Tail(xs)))

\* the position has a profile and no error
Contributes(item) == item.data # Null /\ item.error = NullError

\* the positions of pf in the order p
Permuted(pf, p) == [k \in DOMAIN pf |-> pf[p[k]]]

\* pf without its pending and failed positions
RECURSIVE Participants(_)
Participants(pf) ==
    IF pf = <<>> THEN <<>>
    ELSE IF Contributes(Head(pf)) THEN <<Head(pf)>> \o Participants(Tail(pf))
    ELSE Participants(Tail(pf))

(* C12: totalEquity is the sum of the equities of exactly the positions that
   have a profile and no error, in whatever order the positions are. *)
C12_TotalEquitySumsContributors ==
    \A p \in Perms(Len(portfolio)) :
        stats(Permuted(portfolio, p)).totalEquity =
            SumSeq([k \in DOMAIN portfolio |->
                       IF Contributes(portfolio[k]) THEN portfolio[k].equity ELSE Num(0)])

\* two different positions, one with a profile and one with a profile and an
\* error, both with money in them
C12_Witness ==
    /\ Len(portfolio) = 2
    /\ Contributes(portfolio[1]) /\ portfolio[1].equity = Num(10000)
    /\ portfolio[2].data # Null /\ portfolio[2].error = NoteMsg
    /\ portfolio[2].equity = Num(5000)
    /\ stats(portfolio).totalEquity = Num(10000)

(* C13: when totalEquity is 0 both averages are exactly 0 and so is every
   percentage of both aggregations. *)
C13_ZeroTotalGivesZeroRatios ==
    stats(portfolio).totalEquity = Num(0) =>
        /\ stats(portfolio).avgExpenseRatio = Num(0)
        /\ stats(portfolio).avgDividendYield = Num(0)
        /\ \A h \in aggregatedData(portfolio).holdings :
              \A k \in DOMAIN h : h[k].percentageOfPortfolio = Num(0)
        /\ \A c \in aggregatedData(portfolio).sectors :
              \A k \in DOMAIN c : c[k].percentage = Num(0)

\* two completed positions with equity 0: totalEquity is 0 although there is
\* data, and both aggregations have entries
C13_Witness ==
    /\ Len(portfolio) = 2
    /\ \A k \in DOMAIN portfolio :
          Contributes(portfolio[k]) /\ portfolio[k].equity = Num(0)
    /\ stats(portfolio).hasData
    /\ stats(portfolio).totalEquity = Num(0)
    /\ \E h \in aggregatedData(portfolio).holdings : Len(h) = 2
    /\ \E c \in aggregatedData(portfolio).sectors : Len(c) >= 1

(* C14: the three outputs are those of the portfolio without its pending and
   failed positions. *)
C14_ExcludedPositionsDoNotParticipate ==
    /\ stats(portfolio) = stats(Participants(portfolio))
    /\ aggregatedData(portfolio) = aggregatedData(Participants(portfolio))

\* a position whose fetch failed with RateLimited, next to a completed one
C14_Witness ==
    /\ Len(portfolio) = 2
    /\ portfolio[1].data = Null /\ portfolio[1].error = NoteMsg
    /\ portfolio[1].equity = Num(5000)
    /\ Contributes(portfolio[2]) /\ portfolio[2].equity = Num(10000)
    /\ stats(portfolio).totalEquity = Num(10000)
    /\ \E h \in aggregatedData(portfolio).holdings : Len(h) >= 1

\* a weight as the specification reads it: the number it parses to, and 0
\* when it does not parse
WeightOf(w) == orZero(parseFloat(w))

\* the canonical symbol of a holding
Canonical(holding) ==
    IF Prop(holding, "symbol") \in {NullString, Undefined, "", "N/A", "-"}
    THEN "CASH" ELSE holding.symbol

\* the sum of equity * weight over the visited holdings with canonical
\* symbol key
HoldingTotal(pf, key) ==
    LET visits == holdingVisits(pf, 1) IN
    SumSeq([v \in DOMAIN visits |->
               IF Canonical(visits[v].holding) = key
               THEN times(visits[v].equity, WeightOf(Prop(visits[v].holding, "weight")))
               ELSE Num(0)])

\* the same over the visited sectors with raw name key
SectorTotal(pf, key) ==
    LET visits == sectorVisits(pf, 1) IN
    SumSeq([v \in DOMAIN visits |->
               IF Prop(visits[v].sector, "sector") = key
               THEN times(visits[v].equity, WeightOf(Prop(visits[v].sector, "weight")))
               ELSE Num(0)])

\* value / totalEquity * 100, and 0 if totalEquity is 0
PercentOf(value, totalEquity) ==
    IF totalEquity = Num(0) THEN Num(0)
    ELSE times(divide(value, totalEquity), Num(100))

\* x >= y
AtLeast(x, y) == greater(x, y) \/ (x = y /\ x # NaN)

\* the first visit whose key is key, given the keys of the visits in order
FirstSeen(keys, key) ==
    CHOOSE v \in DOMAIN keys : keys[v] = key /\ \A u \in 1..(v - 1) : keys[u] # key

\* values is descending, and equal values are in the order of first encounter
DescendingStable(values, names, keys) ==
    \A k \in 1..(Len(values) - 1) :
        /\ AtLeast(values[k], values[k + 1])
        /\ values[k] = values[k + 1] =>
              FirstSeen(keys, names[k]) < FirstSeen(keys, names[k + 1])

(* C15: aggregateHoldings has exactly one entry per canonical holding symbol;
   its totalValue is the sum of equity * weight over the holdings with that
   symbol in the contributing positions, and its percentageOfPortfolio is
   totalValue / totalEquity * 100. *)
C15_OneEntryPerSymbolWithSummedValue ==
    LET visits == holdingVisits(portfolio, 1) IN
    \A h \in aggregatedData(portfolio).holdings :
        /\ {h[k].ticker : k \in DOMAIN h} =
              {Canonical(visits[v].holding) : v \in DOMAIN visits}
        /\ \A k, l \in DOMAIN h : h[k].ticker = h[l].ticker => k = l
        /\ \A k \in DOMAIN h :
              /\ h[k].totalValue = HoldingTotal(portfolio, h[k].ticker)
              /\ h[k].percentageOfPortfolio =
                    PercentOf(h[k].totalValue, stats(portfolio).totalEquity)

(* C16: the holdings whose symbol is null, empty, "N/A" or "-" are merged
   into one entry "CASH", "Cash / Other Assets", whose totalValue is the sum
   of their contributions, and no entry has such a symbol as its ticker. *)
C16_CashBucketMergesUnnamedHoldings ==
    LET visits == holdingVisits(portfolio, 1)
        unnamed == {v \in DOMAIN visits :
                       Prop(visits[v].holding, "symbol") \in {NullString, "", "N/A", "-"}}
    IN \A h \in aggregatedData(portfolio).holdings :
          /\ \A k \in DOMAIN h : h[k].ticker \notin {NullString, "", "N/A", "-"}
          /\ unnamed # {} =>
                \E k \in DOMAIN h :
                    /\ h[k].ticker = "CASH"
                    /\ h[k].name = "Cash / Other Assets"
                    /\ h[k].totalValue = HoldingTotal(portfolio, "CASH")
                    /\ \A l \in DOMAIN h : h[l].ticker = "CASH" => l = k

\* the weight as it is if it parses, and "0" if it does not
ZeroIfMalformed(record) ==
    IF parseFloat(Prop(record, "weight")) = NaN
    THEN [record EXCEPT !.weight = "0"] ELSE record

\* the portfolio with every malformed weight replaced by "0"
Repaired(pf) ==
    [k \in DOMAIN pf |->
        IF pf[k].data = Null THEN pf[k]
        ELSE LET body == pf[k].data.body
                 holdings == [h \in DOMAIN body.holdings |-> ZeroIfMalformed(body.holdings[h])]
             IN [pf[k] EXCEPT !.data.body =
                    IF "sectors" \in DOMAIN body
                    THEN [body EXCEPT !.holdings = holdings,
                                      !.sectors = [c \in DOMAIN body.sectors |->
                                                      ZeroIfMalformed(body.sectors[c])]]
                    ELSE [body EXCEPT !.holdings = holdings]]]

(* C17: a holding or sector whose weight does not parse counts as weight 0:
   both aggregations are what they would be had the weight been "0". *)
C17_MalformedWeightCountsAsZero ==
    aggregatedData(portfolio) = aggregatedData(Repaired(portfolio))

(* C18: aggregateHoldings is ordered by totalValue descending, and entries
   with equal totalValue are in the order in which their canonical symbols
   were first encountered. *)
C18_HoldingsDescendingTiesInFirstSeenOrder ==
    LET visits == holdingVisits(portfolio, 1)
        keys == [v \in DOMAIN visits |-> Canonical(visits[v].holding)]
    IN \A h \in aggregatedData(portfolio).holdings :
          DescendingStable([k \in DOMAIN h |-> h[k].totalValue],
                           [k \in DOMAIN h |-> h[k].ticker], keys)

(* C20: aggregateSectors has one entry per raw sector name, a missing or
   empty name included, with value the sum of equity * weight and percentage
   value / totalEquity * 100, ordered by value descending with ties in the
   order of first encounter. *)
C20_SectorsByRawNameSummedAndSorted ==
    LET visits == sectorVisits(portfolio, 1)
        keys == [v \in DOMAIN visits |-> Prop(visits[v].sector, "sector")]
    IN \A c \in aggregatedData(portfolio).sectors :
          /\ {c[k].name : k \in DOMAIN c} = {keys[v] : v \in DOMAIN keys}
          /\ \A k, l \in DOMAIN c : c[k].name = c[l].name => k = l
          /\ \A k \in DOMAIN c :
                /\ c[k].value = SectorTotal(portfolio, c[k].name)
                /\ c[k].percentage = PercentOf(c[k].value, stats(portfolio).totalEquity)
          /\ DescendingStable([k \in DOMAIN c |-> c[k].value],
                              [k \in DOMAIN c |-> c[k].name], keys)

-----------------------------------------------------------------------------
(* The form: the limit of 50 positions, and the equity of a position *)

\* a call made by handleAddEtf starts in this step
AddStarts == \E i \in Slots : Started(i) /\ task'[i].owner # NoOwner

(* C11: the portfolio never holds more than 50 positions; while it holds 50,
   no step adds a position or starts the fetch of an add, whatever adds,
   removals and completions came before. *)
C11_AtMostFiftyPositions ==
    [][/\ Len(portfolio) <= 50 /\ Len(portfolio') <= 50
       /\ Len(portfolio) >= 50 => (Len(portfolio') <= Len(portfolio) /\ ~AddStarts)]_vars

\* the portfolio is full again after a removal: the 50th position was added
\* in this behaviour, by its second add, and a further call could start
C11_Witness ==
    /\ Len(portfolio) = 50
    /\ \E i \in CapSlots : i > 1 /\ task[i].owner = portfolio[50].id
    /\ task[1].owner # NoOwner
    /\ \E k \in 1..49 : portfolio[k].id = task[1].owner

(* C19: every position in the portfolio has equity >= 0, whatever was typed
   in the form. *)
C19_EquityNeverNegative ==
    \A k \in DOMAIN portfolio : ~greater(Num(0), portfolio[k].equity)

-----------------------------------------------------------------------------
(* One attempt per call, and what a failed call leaves behind *)

\* call i throws in this step
Fails(i) == task[i].pc # "done" /\ task'[i].pc = "done" /\ task'[i].error # NullError

(* C21: a call sends the ETF_PROFILE query at most once and the SYMBOL_SEARCH
   query at most once; a call that fails has sent exactly the one
   ETF_PROFILE query, its failure reaches the position in the step in which
   it fails, and a call that has ended sends nothing more. *)
C21_NoRetry ==
    [][\A i \in Slots :
          /\ task'[i].profileCalls <= 1 /\ task'[i].searchCalls <= 1
          /\ Fails(i) =>
                /\ task'[i].profileCalls = 1 /\ task'[i].searchCalls = 0
                /\ task[i].profileCalls = 1
                /\ \A k \in DOMAIN portfolio' :
                      portfolio'[k].id = task[i].owner =>
                         portfolio'[k].error = task'[i].error /\ ~portfolio'[k].isLoading
          /\ task[i].pc = "done" => task'[i] = task[i]]_vars

\* an add whose fetch failed on the reply to its one query, the failure
\* shown on its position
C21_Witness ==
    \E i \in Slots, k \in DOMAIN portfolio :
        /\ task[i].pc = "done" /\ task[i].error = NoHoldingsMsg
        /\ task[i].profileCalls = 1 /\ task[i].searchCalls = 0
        /\ portfolio[k].id = task[i].owner
        /\ portfolio[k].error = NoHoldingsMsg

(* C22: a call that fails leaves the cache as it is; an entry is created or
   overwritten only in the step in which a call returns its profile, with that
   profile; so a call served from the cache gets the profile of a call that
   succeeded, and a ticker whose calls all failed is not served from it. *)
C22_FailedFetchWritesNoEntry ==
    [][/\ \A i \in Slots : Fails(i) => localStorage' = localStorage
       /\ \A key \in DOMAIN localStorage :
             (localStorage'[key] # localStorage[key] /\ localStorage'[key] # NoItem) =>
                \E i \in Slots :
                    /\ ReturnsStored(i) /\ UpperKey(task[i].ticker) = key
                    /\ task'[i].error = NullError
                    /\ TextHolds(localStorage'[key], task'[i].result)
       /\ \A j \in Slots :
             (Started(j) /\ task'[j].pc = "done") =>
                /\ task'[j].error = NullError
                /\ \E m \in Slots :
                      /\ Stored(m) /\ SameTicker(task[m].ticker, task'[j].ticker)
                      /\ task[m].error = NullError
                      /\ SameProfile(task'[j].result, task[m].result)]_vars

\* a call failed and the next call for the same ticker missed the cache and
\* sent its own query
C22_Witness ==
    \E i, j \in Slots :
        /\ i < j
        /\ task[i].pc = "done" /\ task[i].error = InformationMsg
        /\ SameTicker(task[i].ticker, task[j].ticker)
        /\ task[j].profileCalls = 1
        /\ \A key \in DOMAIN localStorage : localStorage[key] = NoItem

(* C23: the identifiers of the positions in the portfolio are pairwise
   distinct, also when two adds happen without the clock advancing, and a
   completion changes no position other than the one its add created. *)
C23_IdsDistinctCompletionTouchesOwnPosition ==
    [][/\ \A a, b \in DOMAIN portfolio' :
             a # b => portfolio'[a].id # portfolio'[b].id
       /\ \A i \in Slots :
             Completes(i) =>
                Cardinality({k \in DOMAIN portfolio :
                                portfolio'[k] # portfolio[k]}) <= 1]_vars

=============================================================================
